---- MODULE Spec2Model ----
(***************************************************************************)
(* State-machine model of sgtr_rl.data_processing.triple_generator:        *)
(* format_response, create_dpo_triples, split_triples, save_triples_jsonl. *)
(***************************************************************************)
EXTENDS Integers, Sequences, FiniteSets, TLC

VARIABLES
    \* create_dpo_triples: its arguments, the categorizer capability, its result
    samples, categorizer, include_reasoning, require_same_prompt, triples, gen_pc,
    \* format_response: two independent calls (arguments and results)
    fmt_a, fmt_b, fmt_flag, fmt_out_a, fmt_out_b, fmt_pc,
    \* the state of the process-wide generator of the random module
    rng,
    \* split_triples called in sequence: the last completed call and an
    \* earlier completed call the caller kept
    sp_last, sp_ref, sp_other,
    \* split_triples called by concurrent threads: per thread its arguments,
    \* its position, its locals and its result; rng0 is the generator state
    \* before any of the calls
    th_pc, th_args, th_shuffled, th_i, th_out, rng0,
    \* save_triples_jsonl: its argument, the content of the destination file,
    \* its position and the number of triples written
    sv_triples, file, sv_pc, sv_k,
    \* the text written to the file object and not yet in the file, whether
    \* the file object is open, the exception that is propagating, and
    \* whether the count of saved triples was printed
    sv_buf, sv_open, sv_err, sv_reported,
    \* one call of split_triples with its list objects: the list objects of
    \* the process, the caller's arguments, the binding of the local name
    \* shuffled, the position of the call, the index of random.shuffle and
    \* the returned pair
    pm_heap, pm_args, pm_shuffled, pm_pc, pm_i, pm_out

genVars == <<samples, categorizer, include_reasoning, require_same_prompt, triples, gen_pc>>
fmtVars == <<fmt_a, fmt_b, fmt_flag, fmt_out_a, fmt_out_b, fmt_pc>>
seqVars == <<sp_last, sp_ref, sp_other>>
thVars == <<th_pc, th_args, th_shuffled, th_i, th_out, rng0>>
svVars == <<sv_triples, file, sv_pc, sv_k, sv_buf, sv_open, sv_err, sv_reported>>
pmVars == <<pm_heap, pm_args, pm_shuffled, pm_pc, pm_i, pm_out>>
vars == <<genVars, fmtVars, rng, seqVars, thVars, svVars, pmVars>>

-----------------------------------------------------------------------------
(* Bounds of the model *)

\* longest input list of create_dpo_triples
MaxSamples == 4
\* longest input list of split_triples, calls in sequence
MaxLen == 3
\* longest input list of split_triples, size law
MaxSizeLen == 5
\* longest input list of split_triples, concurrent callers
MaxThreadLen == 3
\* longest input list of save_triples_jsonl
MaxTriples == 2
\* longest input list of split_triples when its list objects are followed
MaxPermLen == 4
\* longest input list of save_triples_jsonl when a write may fail
MaxFailLen == 3

-----------------------------------------------------------------------------
(* Generic sequence helpers *)

RECURSIVE Flatten(_)
\* concatenation of a sequence of sequences, in order (successive list.append)
Flatten(ss) == IF ss = <<>> THEN <<>> ELSE Head(ss) \o Flatten(Tail(ss))

RECURSIVE Dedupe(_)
\* the distinct elements of a sequence in order of first appearance
\* (the key order of an insertion-ordered dict filled by one pass)
Dedupe(s) ==
    IF s = <<>> THEN <<>>
    ELSE LET r == Dedupe(SubSeq(s, 1, Len(s) - 1))
             x == s[Len(s)]
         IN IF \E i \in 1..Len(r) : r[i] = x THEN r ELSE Append(r, x)

-----------------------------------------------------------------------------
(* Samples and the categorizer *)

Categories == {"TP", "TN", "FP", "FN"}
Prompts == {"P", "Q"}

\* An EvalSample whose sample_id is i: the prompt is an input, the other text
\* fields are distinct per sample so that a mix-up of two samples shows.
\* Odd samples carry reasoning, even samples have none.
EvalSample(i, p) ==
    [sample_id |-> i,
     prompt |-> p,
     reasoning |-> IF i % 2 = 1 THEN "r" \o ToString(i) ELSE "",
     answer |-> "a" \o ToString(i),
     evaluator_model |-> "eval",
     generator_model |-> "gen" \o ToString(i),
     dataset |-> "ds" \o ToString(i),
     experiment |-> "exp" \o ToString(i)]

\* the categorizer capability: pure and total, one tag per sample
categorize_sample(sample) == categorizer[sample.sample_id]

-----------------------------------------------------------------------------
(* format_response *)

format_response_unguarded(sample, with_reasoning) ==
    IF with_reasoning
    THEN sample.reasoning \o "\n\nAnswer: " \o sample.answer
    ELSE sample.answer

format_response(sample, with_reasoning) ==
    IF with_reasoning /\ sample.reasoning # ""
    THEN sample.reasoning \o "\n\nAnswer: " \o sample.answer
    ELSE sample.answer

-----------------------------------------------------------------------------
(* create_dpo_triples *)

correct_samples_all(ss) == ss

\* TP and TN samples, in input order
correct_samples(ss) ==
    SelectSeq(ss, LAMBDA s : categorize_sample(s) \in {"TP", "TN"})

\* every other sample (FP or FN), in input order
incorrect_samples(ss) ==
    SelectSeq(ss, LAMBDA s : ~(categorize_sample(s) \in {"TP", "TN"}))

\* keys of a defaultdict(list) filled in one pass over ss, in insertion order
prompt_keys(ss) == Dedupe([i \in 1..Len(ss) |-> ss[i].prompt])

by_prompt_any(ss, p) == ss

\* the list a defaultdict(list) holds under key p
by_prompt(ss, p) == SelectSeq(ss, LAMBDA s : s.prompt = p)

triple_same_prompt_with_flag(prompt, c, u, with_reasoning) ==
    [prompt |-> prompt,
     chosen |-> format_response(c, with_reasoning),
     rejected |-> format_response(u, with_reasoning),
     metadata |->
        [chosen_sample_id |-> c.sample_id,
         rejected_sample_id |-> u.sample_id,
         chosen_category |-> categorize_sample(c),
         rejected_category |-> categorize_sample(u),
         evaluator_model |-> c.evaluator_model,
         chosen_generator |-> c.generator_model,
         rejected_generator |-> u.generator_model,
         dataset |-> c.dataset,
         experiment |-> c.experiment,
         prompt_mismatch |-> c.prompt # u.prompt]]

\* the DPOTriple built in same-prompt mode
triple_same_prompt(prompt, c, u, with_reasoning) ==
    [prompt |-> prompt,
     chosen |-> format_response(c, with_reasoning),
     rejected |-> format_response(u, with_reasoning),
     metadata |->
        [chosen_sample_id |-> c.sample_id,
         rejected_sample_id |-> u.sample_id,
         chosen_category |-> categorize_sample(c),
         rejected_category |-> categorize_sample(u),
         evaluator_model |-> c.evaluator_model,
         chosen_generator |-> c.generator_model,
         rejected_generator |-> u.generator_model,
         dataset |-> c.dataset,
         experiment |-> c.experiment]]

triple_cross_rejected_prompt(c, u, with_reasoning) ==
    [prompt |-> u.prompt,
     chosen |-> format_response(c, with_reasoning),
     rejected |-> format_response(u, with_reasoning),
     metadata |->
        [chosen_sample_id |-> c.sample_id,
         rejected_sample_id |-> u.sample_id,
         chosen_category |-> categorize_sample(c),
         rejected_category |-> categorize_sample(u),
         evaluator_model |-> c.evaluator_model,
         chosen_generator |-> c.generator_model,
         rejected_generator |-> u.generator_model,
         dataset |-> c.dataset,
         experiment |-> c.experiment,
         prompt_mismatch |-> c.prompt # u.prompt]]

\* the DPOTriple built in cross mode
triple_cross(c, u, with_reasoning) ==
    [prompt |-> c.prompt,
     chosen |-> format_response(c, with_reasoning),
     rejected |-> format_response(u, with_reasoning),
     metadata |->
        [chosen_sample_id |-> c.sample_id,
         rejected_sample_id |-> u.sample_id,
         chosen_category |-> categorize_sample(c),
         rejected_category |-> categorize_sample(u),
         evaluator_model |-> c.evaluator_model,
         chosen_generator |-> c.generator_model,
         rejected_generator |-> u.generator_model,
         dataset |-> c.dataset,
         experiment |-> c.experiment,
         prompt_mismatch |-> c.prompt # u.prompt]]

same_prompt_triples_unmatched(ss, with_reasoning) ==
    LET correct == correct_samples(ss)
        incorrect == incorrect_samples(ss)
        keys == prompt_keys(correct)
        group(p) ==
            LET cs == by_prompt(correct, p)
            IN Flatten([i \in 1..Len(cs) |->
                   [k \in 1..Len(incorrect) |->
                       triple_same_prompt(p, cs[i], incorrect[k], with_reasoning)]])
    IN Flatten([g \in 1..Len(keys) |-> group(keys[g])])

\* the branch require_same_prompt = True: for each key of correct_by_prompt
\* that is also a key of incorrect_by_prompt, each correct with each incorrect
same_prompt_triples(ss, with_reasoning) ==
    LET correct == correct_samples(ss)
        incorrect == incorrect_samples(ss)
        keys == prompt_keys(correct)
        other == prompt_keys(incorrect)
        group(p) ==
            IF ~(\E k \in 1..Len(other) : other[k] = p) THEN <<>>
            ELSE LET cs == by_prompt(correct, p)
                     us == by_prompt(incorrect, p)
                 IN Flatten([i \in 1..Len(cs) |->
                        [k \in 1..Len(us) |->
                            triple_same_prompt(p, cs[i], us[k], with_reasoning)]])
    IN Flatten([g \in 1..Len(keys) |-> group(keys[g])])

\* the branch require_same_prompt = False: each correct with each incorrect
cross_triples(ss, with_reasoning) ==
    LET correct == correct_samples(ss)
        incorrect == incorrect_samples(ss)
    IN Flatten([i \in 1..Len(correct) |->
            [k \in 1..Len(incorrect) |->
                triple_cross(correct[i], incorrect[k], with_reasoning)]])

create_dpo_triples(ss, with_reasoning, same_prompt) ==
    IF same_prompt THEN same_prompt_triples(ss, with_reasoning)
    ELSE cross_triples(ss, with_reasoning)

-----------------------------------------------------------------------------
(* Python floats: IEEE 754 binary64, as far as int(n * x) needs them *)

\* significand bits of a double
DoublePrecision == 53

\* A double x >= 0 as float.hex(x) prints it: 14 hexadecimal digits of the
\* significand (the first is 0 or 1) and a binary exponent, so that
\* x = (the 14 digits as an integer) * 2^(exp - 52).
Double_0_0 == [sig |-> <<0, 0,0,0,0,0,0,0,0,0,0,0,0,0>>, exp |-> 0]
Double_0_5 == [sig |-> <<1, 0,0,0,0,0,0,0,0,0,0,0,0,0>>, exp |-> -1]
Double_0_6 == [sig |-> <<1, 3,3,3,3,3,3,3,3,3,3,3,3,3>>, exp |-> -1]
Double_0_8 == [sig |-> <<1, 9,9,9,9,9,9,9,9,9,9,9,9,10>>, exp |-> -1]
Double_0_2 == [sig |-> <<1, 9,9,9,9,9,9,9,9,9,9,9,9,10>>, exp |-> -3]
Double_1_0 == [sig |-> <<1, 0,0,0,0,0,0,0,0,0,0,0,0,0>>, exp |-> 0]

\* Natural numbers of any size as sequences of 16-bit limbs, least
\* significant limb first
LimbBits == 16
LimbBase == 2 ^ LimbBits

RECURSIVE BitLength(_)
\* int.bit_length()
BitLength(n) == IF n = 0 THEN 0 ELSE 1 + BitLength(n \div 2)

RECURSIVE StripHigh(_)
StripHigh(l) ==
    IF l = <<>> THEN <<>>
    ELSE IF l[Len(l)] = 0 THEN StripHigh(SubSeq(l, 1, Len(l) - 1)) ELSE l

RECURSIVE LimbsMulAdd(_, _, _)
\* n * l + carry, for n < 2^15
LimbsMulAdd(n, l, carry) ==
    IF l = <<>> THEN (IF carry = 0 THEN <<>> ELSE <<carry>>)
    ELSE LET t == n * l[1] + carry
         IN <<t % LimbBase>> \o LimbsMulAdd(n, Tail(l), t \div LimbBase)

RECURSIVE LimbsToNat(_)
LimbsToNat(l) == IF l = <<>> THEN 0 ELSE l[1] + LimbBase * LimbsToNat(Tail(l))

LimbsBitLength(l) ==
    IF l = <<>> THEN 0 ELSE LimbBits * (Len(l) - 1) + BitLength(l[Len(l)])

\* the 14-digit significand as an integer
SigLimbs(sig) ==
    LET p == <<0, 0>> \o sig
    IN StripHigh([k \in 1..4 |->
        LET o == 16 - 4 * k
        IN ((p[o + 1] * 16 + p[o + 2]) * 16 + p[o + 3]) * 16 + p[o + 4]])

\* l rounded to DoublePrecision significant bits, to nearest, ties to even
\* (at most LimbBits - 1 bits are dropped)
RoundLimbs(l) ==
    LET d == LimbsBitLength(l) - DoublePrecision
    IN IF d <= 0 THEN l
       ELSE LET low == l[1] % (2 ^ d)
                half == 2 ^ (d - 1)
                kept_lsb == (l[1] \div (2 ^ d)) % 2
                up == low > half \/ (low = half /\ kept_lsb = 1)
            IN LimbsMulAdd(1, [l EXCEPT ![1] = l[1] - low], IF up THEN 2 ^ d ELSE 0)

\* n * x for an int n >= 0 and a double x >= 0, as the value limbs * 2^(-scale):
\* the exact product rounded to a double
DoubleMulInt(n, x) ==
    [limbs |-> RoundLimbs(StripHigh(LimbsMulAdd(n, SigLimbs(x.sig), 0))),
     scale |-> 52 - x.exp]

\* int(v) for a double v >= 0
IntOfDouble(v) ==
    LET q == v.scale \div LimbBits
        r == v.scale % LimbBits
    IN IF q >= Len(v.limbs) THEN 0
       ELSE LimbsToNat(SubSeq(v.limbs, q + 1, Len(v.limbs))) \div (2 ^ r)

-----------------------------------------------------------------------------
(* The random module's generator, reduced to a 3-bit state *)

RngBits == 3
RngMod == 8
RngMul == 5
RngInc == 3
\* None, and Optional values: the empty sequence, or <<v>>
None == <<>>
Some(v) == <<v>>

\* random.seed(a): the state is a function of a alone
SeedState(a) == a % RngMod

\* the state after one draw
RngStep(state) == (RngMul * state + RngInc) % RngMod

Min(a, b) == IF a < b THEN a ELSE b

RECURSIVE randbelow(_, _)
\* Random._randbelow(n): getrandbits(n.bit_length()) until the draw is below n
randbelow(n, state) ==
    LET next == RngStep(state)
        r == next \div (2 ^ (RngBits - BitLength(n)))
    IN IF r < n THEN [value |-> r, state |-> next] ELSE randbelow(n, next)

\* one iteration of random.shuffle at index i (0-based): swap x[i] and x[j]
shuffle_step(x, i, state) ==
    LET d == randbelow(i + 1, state)
        j == d.value
    IN [list |-> [x EXCEPT ![i + 1] = x[j + 1], ![j + 1] = x[i + 1]], state |-> d.state]

RECURSIVE shuffle_from(_, _, _)
\* the iterations i, i - 1, ..., 1 of random.shuffle
shuffle_from(x, i, state) ==
    IF i < 1 THEN [list |-> x, state |-> state]
    ELSE LET s == shuffle_step(x, i, state) IN shuffle_from(s.list, i - 1, s.state)

\* random.shuffle(x)
shuffle(x, state) == shuffle_from(x, Len(x) - 1, state)

-----------------------------------------------------------------------------
(* split_triples *)

seed_state_unseeded(seed, state) == state

\* if seed is not None: random.seed(seed)
seed_state(seed, state) == IF seed # None THEN SeedState(seed[1]) ELSE state

train_size_from_val(n, train_ratio, val_ratio) ==
    n - IntOfDouble(DoubleMulInt(n, val_ratio))

\* train_size = int(len(shuffled) * train_ratio)
train_size(n, train_ratio, val_ratio) == IntOfDouble(DoubleMulInt(n, train_ratio))

\* shuffled[:k] and shuffled[k:]
slice_to(x, k) == SubSeq(x, 1, Min(k, Len(x)))
slice_from(x, k) == SubSeq(x, Min(k, Len(x)) + 1, Len(x))

\* the whole call, run without interruption from generator state `state`
split_triples(input, train_ratio, val_ratio, seed, state) ==
    LET s == shuffle(input, seed_state(seed, state))
        k == train_size(Len(s.list), train_ratio, val_ratio)
    IN [train |-> slice_to(s.list, k), val |-> slice_from(s.list, k), state |-> s.state]

list_alias(heap, ref) == [heap |-> heap, ref |-> ref]

\* list.copy(): a new list object with the same elements in the same order
list_copy(heap, ref) == [heap |-> Append(heap, heap[ref]), ref |-> Len(heap) + 1]

\* a list of n distinct triples
TripleList(n) == [i \in 1..n |-> i]

Seeds == {Some(42), Some(3)}
SeqTrainRatios == {Double_0_5, Double_0_8}
TrainRatios == {Double_0_0, Double_0_5, Double_0_6, Double_0_8, Double_1_0}
ValRatios == {Double_0_2, Double_0_5}

-----------------------------------------------------------------------------
(* json.dumps on the records save_triples_jsonl writes *)

\* Text is a sequence of characters. NonAscii stands for one character
\* outside ASCII (U+00E9).
NonAscii == "U+00E9"
Quote == "\""
Backslash == "\\"
Newline == "\n"

\* A JSON value is tagged: str (text), int, bool, null, obj (a sequence of
\* <<key, value>> pairs in insertion order, the keys distinct texts)
JStr(x) == [t |-> "str", v |-> x]
JInt(n) == [t |-> "int", v |-> n]
JBool(b) == [t |-> "bool", v |-> b]
JNull == [t |-> "null", v |-> <<>>]
JObj(pairs) == [t |-> "obj", v |-> pairs]
\* a value json.dumps has no encoding for (a set)
JSet == [t |-> "set", v |-> <<>>]

RECURSIVE serializable(_)
\* whether json.dumps(value) returns; it raises TypeError otherwise
serializable(value) ==
    IF value.t = "obj" THEN \A i \in 1..Len(value.v) : serializable(value.v[i][2])
    ELSE value.t \in {"str", "int", "bool", "null"}

DigitChars == <<"0", "1", "2", "3", "4", "5", "6", "7", "8", "9">>

escape_char_raw(c) ==
    IF c = Quote THEN <<Backslash, Quote>>
    ELSE IF c = Backslash THEN <<Backslash, Backslash>>
    ELSE <<c>>

\* the escape of one character under ensure_ascii=True
escape_char(c) ==
    IF c = Quote THEN <<Backslash, Quote>>
    ELSE IF c = Backslash THEN <<Backslash, Backslash>>
    ELSE IF c = Newline THEN <<Backslash, "n">>
    ELSE IF c = NonAscii THEN <<Backslash, "u", "0", "0", "e", "9">>
    ELSE <<c>>

encode_string(x) ==
    <<Quote>> \o Flatten([i \in 1..Len(x) |-> escape_char(x[i])]) \o <<Quote>>

RECURSIVE encode_digits(_)
encode_digits(n) ==
    IF n < 10 THEN <<DigitChars[n + 1]>>
    ELSE encode_digits(n \div 10) \o <<DigitChars[(n % 10) + 1]>>

encode_int(n) == IF n < 0 THEN <<"-">> \o encode_digits(-n) ELSE encode_digits(n)

RECURSIVE json_dumps(_)
\* json.dumps(value) with the default separators ", " and ": "
json_dumps(value) ==
    IF value.t = "str" THEN encode_string(value.v)
    ELSE IF value.t = "int" THEN encode_int(value.v)
    ELSE IF value.t = "bool"
        THEN (IF value.v THEN <<"t", "r", "u", "e">> ELSE <<"f", "a", "l", "s", "e">>)
    ELSE IF value.t = "null" THEN <<"n", "u", "l", "l">>
    ELSE <<"{">> \o
         Flatten([i \in 1..Len(value.v) |->
            (IF i > 1 THEN <<",", " ">> ELSE <<>>)
                \o encode_string(value.v[i][1]) \o <<":", " ">> \o json_dumps(value.v[i][2])])
         \o <<"}">>

-----------------------------------------------------------------------------
(* save_triples_jsonl *)

KeyPrompt == <<"p", "r", "o", "m", "p", "t">>
KeyChosen == <<"c", "h", "o", "s", "e", "n">>
KeyRejected == <<"r", "e", "j", "e", "c", "t", "e", "d">>
KeyMetadata == <<"m", "e", "t", "a", "d", "a", "t", "a">>

\* record = {"prompt": ..., "chosen": ..., "rejected": ..., "metadata": ...}
triple_record(triple) ==
    JObj(<< <<KeyPrompt, JStr(triple.prompt)>>,
            <<KeyChosen, JStr(triple.chosen)>>,
            <<KeyRejected, JStr(triple.rejected)>>,
            <<KeyMetadata, JObj(triple.metadata)>> >>)

\* the text of one f.write: json.dumps(record) + "\n"
record_line(triple) == json_dumps(triple_record(triple)) \o <<Newline>>

\* open(output_file, "w"): the file is created or truncated
open_write(content) == <<>>

with_exit_leak(is_open) == is_open

\* the end of the with block, reached normally or by an exception: f.close()
with_exit(is_open) == FALSE

\* how many of n buffered characters a successful f.write or f.close moves
\* to the file: none while the buffer has room, all when it is flushed
BufferFlushes(n) == {0, n}

\* how many of n buffered characters reach the file when the flush of a
\* f.write fails: none, or some and not all
FailedFlushes(n) == {0, n \div 2}

\* the first m characters of a text, and the rest
take(x, m) == SubSeq(x, 1, m)
drop(x, m) == SubSeq(x, m + 1, Len(x))

-----------------------------------------------------------------------------
(* Specification of triple generation: one call on an arbitrary input *)

FmtIdle ==
    /\ fmt_a = <<>>
    /\ fmt_b = <<>>
    /\ fmt_flag = FALSE
    /\ fmt_out_a = ""
    /\ fmt_out_b = ""
    /\ fmt_pc = "off"

GenIdle ==
    /\ samples = <<>>
    /\ categorizer = <<>>
    /\ include_reasoning = FALSE
    /\ require_same_prompt = FALSE
    /\ triples = <<>>
    /\ gen_pc = "off"

SeqIdle ==
    /\ sp_last = None
    /\ sp_ref = None
    /\ sp_other = FALSE

ThIdle ==
    /\ th_pc = <<>>
    /\ th_args = <<>>
    /\ th_shuffled = <<>>
    /\ th_i = <<>>
    /\ th_out = <<>>
    /\ rng0 = 0

SplitIdle == rng = 0 /\ SeqIdle /\ ThIdle

SaveIdle ==
    /\ sv_triples = <<>>
    /\ file = <<>>
    /\ sv_pc = "off"
    /\ sv_k = 0
    /\ sv_buf = <<>>
    /\ sv_open = FALSE
    /\ sv_err = None
    /\ sv_reported = FALSE

PermIdle ==
    /\ pm_heap = <<>>
    /\ pm_args = None
    /\ pm_shuffled = 0
    /\ pm_pc = "off"
    /\ pm_i = 0
    /\ pm_out = None

Init ==
    /\ \E n \in 0..MaxSamples :
        /\ \E ps \in [1..n -> Prompts] : samples = [i \in 1..n |-> EvalSample(i, ps[i])]
        /\ categorizer \in [1..n -> Categories]
    /\ include_reasoning = FALSE
    /\ require_same_prompt = FALSE
    /\ triples = <<>>
    /\ gen_pc = "ready"
    /\ FmtIdle
    /\ SplitIdle
    /\ SaveIdle
    /\ PermIdle

\* a call create_dpo_triples(samples, include_reasoning, require_same_prompt)
CreateDpoTriples ==
    /\ gen_pc = "ready"
    /\ \E ir \in BOOLEAN, rsp \in BOOLEAN :
        /\ include_reasoning' = ir
        /\ require_same_prompt' = rsp
        /\ triples' = create_dpo_triples(samples, ir, rsp)
    /\ gen_pc' = "done"
    /\ UNCHANGED <<samples, categorizer, fmtVars, rng, seqVars, thVars, svVars, pmVars>>

Next == CreateDpoTriples

Spec == Init /\ [][Next]_vars

-----------------------------------------------------------------------------
(* Specification of format_response: two calls with the same flag *)

ReasoningTexts == {"", "R", "why"}
AnswerTexts == {"42", "", "no"}

\* samples that differ in the fields format_response reads and in others
FormatSamples ==
    {[EvalSample(i, p) EXCEPT !.reasoning = r, !.answer = a] :
        i \in {1, 2}, p \in Prompts, r \in ReasoningTexts, a \in AnswerTexts}

InitFormat ==
    /\ GenIdle
    /\ SplitIdle
    /\ SaveIdle
    /\ PermIdle
    /\ fmt_a \in FormatSamples
    /\ fmt_b \in FormatSamples
    /\ fmt_flag \in BOOLEAN
    /\ fmt_out_a = ""
    /\ fmt_out_b = ""
    /\ fmt_pc = "ready"

\* format_response(fmt_a, fmt_flag)
FormatFirst ==
    /\ fmt_pc = "ready"
    /\ fmt_out_a' = format_response(fmt_a, fmt_flag)
    /\ fmt_pc' = "first"
    /\ UNCHANGED <<fmt_a, fmt_b, fmt_flag, fmt_out_b, genVars, rng, seqVars, thVars, svVars, pmVars>>

\* format_response(fmt_b, fmt_flag)
FormatSecond ==
    /\ fmt_pc = "first"
    /\ fmt_out_b' = format_response(fmt_b, fmt_flag)
    /\ fmt_pc' = "done"
    /\ UNCHANGED <<fmt_a, fmt_b, fmt_flag, fmt_out_a, genVars, rng, seqVars, thVars, svVars, pmVars>>

NextFormat == FormatFirst \/ FormatSecond

SpecFormat == InitFormat /\ [][NextFormat]_vars

-----------------------------------------------------------------------------
(* Specification of split_triples called in sequence by one thread *)

InitSplit ==
    /\ GenIdle
    /\ FmtIdle
    /\ ThIdle
    /\ SeqIdle
    /\ SaveIdle
    /\ PermIdle
    /\ rng \in 0..(RngMod - 1)

\* a call split_triples(triples, train_ratio, val_ratio, seed) on a list of a
\* length in lens, run from entry to return
SplitCall(lens, ratios, vals) ==
    \E n \in lens, tr \in ratios, vr \in vals, seed \in Seeds \cup {None} :
        LET r == split_triples(TripleList(n), tr, vr, seed, rng)
            call == [input |-> TripleList(n), train_ratio |-> tr, val_ratio |-> vr,
                     seed |-> seed, train |-> r.train, val |-> r.val]
        IN /\ rng' = r.state
           /\ sp_last' = Some(call)
           /\ sp_other' = (sp_other \/ (sp_ref # None /\
                [call EXCEPT !.train = <<>>, !.val = <<>>]
                    # [sp_ref[1] EXCEPT !.train = <<>>, !.val = <<>>]))
           /\ UNCHANGED <<sp_ref, genVars, fmtVars, thVars, svVars, pmVars>>

SplitTriples == SplitCall(2..MaxLen, SeqTrainRatios, {Double_0_2})

\* the first call of a process, on a list of any length
SplitAnySize == sp_last = None /\ SplitCall(0..MaxSizeLen, TrainRatios, ValRatios)

\* the caller keeps the result of the call that just returned
Remember ==
    /\ sp_last # None
    /\ sp_ref' = sp_last
    /\ sp_other' = FALSE
    /\ UNCHANGED <<rng, sp_last, genVars, fmtVars, thVars, svVars, pmVars>>

\* other code of the process draws from the random module
OtherRandomUse ==
    /\ rng' = RngStep(rng)
    /\ sp_other' = (sp_other \/ sp_ref # None)
    /\ UNCHANGED <<sp_last, sp_ref, genVars, fmtVars, thVars, svVars, pmVars>>

NextSplit == SplitTriples \/ Remember \/ OtherRandomUse

SpecSplit == InitSplit /\ [][NextSplit]_vars

NextSizes == SplitAnySize

SpecSizes == InitSplit /\ [][NextSizes]_vars

-----------------------------------------------------------------------------
(* Specification of split_triples called by two threads with distinct seeds *)

Threads == {1, 2}
ThreadSeed(t) == IF t = 1 THEN Some(42) ELSE Some(3)

InitThreads ==
    /\ GenIdle
    /\ FmtIdle
    /\ SeqIdle
    /\ SaveIdle
    /\ PermIdle
    /\ rng \in 0..(RngMod - 1)
    /\ rng0 = rng
    /\ \E ns \in [Threads -> 2..MaxThreadLen] :
        th_args = [t \in Threads |->
            [input |-> TripleList(ns[t]), train_ratio |-> Double_0_5,
             val_ratio |-> Double_0_5, seed |-> ThreadSeed(t)]]
    /\ th_pc = [t \in Threads |-> "seed"]
    /\ th_shuffled = [t \in Threads |-> <<>>]
    /\ th_i = [t \in Threads |-> 0]
    /\ th_out = [t \in Threads |-> None]

\* if seed is not None: random.seed(seed)
ThSeed(t) ==
    /\ th_pc[t] = "seed"
    /\ rng' = seed_state(th_args[t].seed, rng)
    /\ th_pc' = [th_pc EXCEPT ![t] = "copy"]
    /\ UNCHANGED <<th_args, th_shuffled, th_i, th_out, rng0, genVars, fmtVars, seqVars, svVars, pmVars>>

\* shuffled = triples.copy(), and the entry of random.shuffle
ThCopy(t) ==
    /\ th_pc[t] = "copy"
    /\ th_shuffled' = [th_shuffled EXCEPT ![t] = th_args[t].input]
    /\ th_i' = [th_i EXCEPT ![t] = Len(th_args[t].input) - 1]
    /\ th_pc' = [th_pc EXCEPT ![t] = "shuffle"]
    /\ UNCHANGED <<rng, th_args, th_out, rng0, genVars, fmtVars, seqVars, svVars, pmVars>>

\* one iteration of the loop of random.shuffle
ThShuffleStep(t) ==
    /\ th_pc[t] = "shuffle"
    /\ th_i[t] >= 1
    /\ LET s == shuffle_step(th_shuffled[t], th_i[t], rng)
       IN /\ th_shuffled' = [th_shuffled EXCEPT ![t] = s.list]
          /\ rng' = s.state
    /\ th_i' = [th_i EXCEPT ![t] = th_i[t] - 1]
    /\ UNCHANGED <<th_pc, th_args, th_out, rng0, genVars, fmtVars, seqVars, svVars, pmVars>>

\* the two slices and the return
ThSplit(t) ==
    /\ th_pc[t] = "shuffle"
    /\ th_i[t] < 1
    /\ LET k == train_size(Len(th_shuffled[t]), th_args[t].train_ratio, th_args[t].val_ratio)
       IN th_out' = [th_out EXCEPT ![t] =
            Some([train |-> slice_to(th_shuffled[t], k), val |-> slice_from(th_shuffled[t], k)])]
    /\ th_pc' = [th_pc EXCEPT ![t] = "done"]
    /\ UNCHANGED <<rng, th_args, th_shuffled, th_i, rng0, genVars, fmtVars, seqVars, svVars, pmVars>>

NextThreads == \E t \in Threads : ThSeed(t) \/ ThCopy(t) \/ ThShuffleStep(t) \/ ThSplit(t)

SpecThreads == InitThreads /\ [][NextThreads]_vars

-----------------------------------------------------------------------------
(* Specification of one call of split_triples with its list objects *)

\* the triples a caller's list may hold, the same one more than once
PermTriples == {"t1", "t2", "t3"}

\* the caller's list is list object 1
CallerList == 1

InitPerm ==
    /\ GenIdle
    /\ FmtIdle
    /\ ThIdle
    /\ SeqIdle
    /\ SaveIdle
    /\ rng \in 0..(RngMod - 1)
    /\ \E n \in 0..MaxPermLen, tr \in SeqTrainRatios, seed \in Seeds \cup {None} :
        \E input \in [1..n -> PermTriples] :
            /\ pm_heap = <<input>>
            /\ pm_args = Some([triples |-> CallerList, input |-> input, train_ratio |-> tr,
                               val_ratio |-> Double_0_2, seed |-> seed])
    /\ pm_shuffled = 0
    /\ pm_pc = "seed"
    /\ pm_i = 0
    /\ pm_out = None

\* if seed is not None: random.seed(seed)
PermSeed ==
    /\ pm_pc = "seed"
    /\ rng' = seed_state(pm_args[1].seed, rng)
    /\ pm_pc' = "copy"
    /\ UNCHANGED <<pm_heap, pm_args, pm_shuffled, pm_i, pm_out,
                   genVars, fmtVars, seqVars, thVars, svVars>>

\* shuffled = triples.copy(), and the entry of random.shuffle(shuffled)
PermCopy ==
    /\ pm_pc = "copy"
    /\ LET c == list_copy(pm_heap, pm_args[1].triples)
       IN /\ pm_heap' = c.heap
          /\ pm_shuffled' = c.ref
          /\ pm_i' = Len(c.heap[c.ref]) - 1
    /\ pm_pc' = "shuffle"
    /\ UNCHANGED <<rng, pm_args, pm_out, genVars, fmtVars, seqVars, thVars, svVars>>

\* one iteration of the loop of random.shuffle, in place on shuffled
PermShuffleStep ==
    /\ pm_pc = "shuffle"
    /\ pm_i >= 1
    /\ LET s == shuffle_step(pm_heap[pm_shuffled], pm_i, rng)
       IN /\ pm_heap' = [pm_heap EXCEPT ![pm_shuffled] = s.list]
          /\ rng' = s.state
    /\ pm_i' = pm_i - 1
    /\ UNCHANGED <<pm_args, pm_shuffled, pm_pc, pm_out, genVars, fmtVars, seqVars, thVars, svVars>>

\* train_size, the two slices (new lists) and the return
PermReturn ==
    /\ pm_pc = "shuffle"
    /\ pm_i < 1
    /\ LET x == pm_heap[pm_shuffled]
           k == train_size(Len(x), pm_args[1].train_ratio, pm_args[1].val_ratio)
       IN pm_out' = Some([train |-> slice_to(x, k), val |-> slice_from(x, k)])
    /\ pm_pc' = "done"
    /\ UNCHANGED <<rng, pm_heap, pm_args, pm_shuffled, pm_i, genVars, fmtVars, seqVars, thVars, svVars>>

NextPerm == PermSeed \/ PermCopy \/ PermShuffleStep \/ PermReturn

SpecPerm == InitPerm /\ [][NextPerm]_vars

-----------------------------------------------------------------------------
(* Specification of save_triples_jsonl *)

\* texts with the characters JSON escapes
Texts ==
    {<<>>, <<"a", ":", " ", "}">>, <<Quote>>, <<Backslash, "n">>, <<"a", Newline, "b">>, <<NonAscii, Backslash>>}

\* metadata mappings of primitive values
Metadatas ==
    {<<>>,
     << <<KeyChosen, JStr(<<Quote, Newline>>)>>, <<<<"i", "d">>, JInt(-120)>> >>,
     << <<<<"o", "k">>, JBool(TRUE)>>, <<<<Quote, "k">>, JNull>>,
        <<<<"n">>, JInt(7)>>, <<<<"f">>, JBool(FALSE)>> >>}

SaveTriples ==
    {[prompt |-> x, chosen |-> <<"c">> \o x, rejected |-> x \o x, metadata |-> m] :
        x \in Texts, m \in Metadatas}

\* what the destination may hold before the call: nothing, or three lines
PriorContents ==
    {<<>>, <<"{", "}", Newline, "{", "}", Newline, "o", "l", "d", Newline>>}

InitSave ==
    /\ GenIdle
    /\ FmtIdle
    /\ SplitIdle
    /\ PermIdle
    /\ \E n \in 0..MaxTriples : sv_triples \in [1..n -> SaveTriples]
    /\ file \in PriorContents
    /\ sv_pc = "open"
    /\ sv_k = 0
    /\ sv_buf = <<>>
    /\ sv_open = FALSE
    /\ sv_err = None
    /\ sv_reported = FALSE

\* output_file.parent.mkdir(...); open(output_file, "w")
SaveOpen ==
    /\ sv_pc = "open"
    /\ file' = open_write(file)
    /\ sv_open' = TRUE
    /\ sv_pc' = "write"
    /\ UNCHANGED <<sv_triples, sv_k, sv_buf, sv_err, sv_reported,
                   genVars, fmtVars, rng, seqVars, thVars, pmVars>>

\* one iteration of the loop: f.write(json.dumps(record) + "\n"); the file
\* object buffers the text and flushes its buffer when it is full
SaveWrite ==
    /\ sv_pc = "write"
    /\ sv_k < Len(sv_triples)
    /\ serializable(triple_record(sv_triples[sv_k + 1]))
    /\ LET pending == sv_buf \o record_line(sv_triples[sv_k + 1])
       IN \E m \in BufferFlushes(Len(pending)) :
            /\ file' = file \o take(pending, m)
            /\ sv_buf' = drop(pending, m)
    /\ sv_k' = sv_k + 1
    /\ UNCHANGED <<sv_triples, sv_pc, sv_open, sv_err, sv_reported,
                   genVars, fmtVars, rng, seqVars, thVars, pmVars>>

\* the end of the with block (the buffer is flushed, the file is closed) and
\* the print
SaveClose ==
    /\ sv_pc = "write"
    /\ sv_k = Len(sv_triples)
    /\ file' = file \o sv_buf
    /\ sv_buf' = <<>>
    /\ sv_open' = with_exit(sv_open)
    /\ sv_reported' = TRUE
    /\ sv_pc' = "done"
    /\ UNCHANGED <<sv_triples, sv_k, sv_err, genVars, fmtVars, rng, seqVars, thVars, pmVars>>

NextSave == SaveOpen \/ SaveWrite \/ SaveClose

SpecSave == InitSave /\ [][NextSave]_vars

-----------------------------------------------------------------------------
(* Specification of save_triples_jsonl when encoding or writing may fail *)

FailTexts == {<<"a">>, <<"a", Newline, "b">>}

\* metadata mappings, one of them with a value json.dumps cannot encode
FailMetadatas ==
    {<<>>,
     << <<<<"i", "d">>, JInt(7)>> >>,
     << <<<<"i", "d">>, JInt(7)>>, <<<<"s">>, JSet>> >>}

FailTriples ==
    {[prompt |-> x, chosen |-> x, rejected |-> <<>>, metadata |-> m] :
        x \in FailTexts, m \in FailMetadatas}

InitSaveFail ==
    /\ GenIdle
    /\ FmtIdle
    /\ SplitIdle
    /\ PermIdle
    /\ \E n \in 0..MaxFailLen : sv_triples \in [1..n -> FailTriples]
    /\ file \in PriorContents
    /\ sv_pc = "open"
    /\ sv_k = 0
    /\ sv_buf = <<>>
    /\ sv_open = FALSE
    /\ sv_err = None
    /\ sv_reported = FALSE

\* json.dumps(record) raises: nothing is passed to f.write
SaveEncodeFails ==
    /\ sv_pc = "write"
    /\ sv_k < Len(sv_triples)
    /\ ~serializable(triple_record(sv_triples[sv_k + 1]))
    /\ sv_err' = Some("TypeError")
    /\ sv_pc' = "raise"
    /\ UNCHANGED <<sv_triples, file, sv_k, sv_buf, sv_open, sv_reported,
                   genVars, fmtVars, rng, seqVars, thVars, pmVars>>

\* f.write(...) raises: the flush of the buffer fails in the operating
\* system after part of the buffered text reached the file
SaveWriteFails ==
    /\ sv_pc = "write"
    /\ sv_k < Len(sv_triples)
    /\ serializable(triple_record(sv_triples[sv_k + 1]))
    /\ LET pending == sv_buf \o record_line(sv_triples[sv_k + 1])
       IN \E m \in FailedFlushes(Len(pending)) :
            /\ file' = file \o take(pending, m)
            /\ sv_buf' = drop(pending, m)
    /\ sv_err' = Some("OSError")
    /\ sv_pc' = "raise"
    /\ UNCHANGED <<sv_triples, sv_k, sv_open, sv_reported,
                   genVars, fmtVars, rng, seqVars, thVars, pmVars>>

\* the exception leaves the with block: f.close() flushes what is buffered
\* (after a failed write the operating system may fail again) and closes the
\* file; the print is not reached and the exception goes to the caller
SaveExitOnError ==
    /\ sv_pc = "raise"
    /\ \E m \in (IF sv_err = Some("OSError") THEN BufferFlushes(Len(sv_buf)) ELSE {Len(sv_buf)}) :
        file' = file \o take(sv_buf, m)
    /\ sv_buf' = <<>>
    /\ sv_open' = with_exit(sv_open)
    /\ sv_pc' = "failed"
    /\ UNCHANGED <<sv_triples, sv_k, sv_err, sv_reported,
                   genVars, fmtVars, rng, seqVars, thVars, pmVars>>

NextSaveFail ==
    \/ SaveOpen
    \/ SaveWrite
    \/ SaveClose
    \/ SaveEncodeFails
    \/ SaveWriteFails
    \/ SaveExitOnError

SpecSaveFail == InitSaveFail /\ [][NextSaveFail]_vars

-----------------------------------------------------------------------------
(* Properties of create_dpo_triples *)

Acceptable == {"TP", "TN"}
Unacceptable == {"FP", "FN"}
GenDone == gen_pc = "done"
SameMode == GenDone /\ require_same_prompt
CrossMode == GenDone /\ ~require_same_prompt

\* the input sample a sample id names
SampleOf(id) == samples[id]

\* acceptable / unacceptable input samples with prompt p, in input order
AcceptableAt(p) ==
    SelectSeq(samples, LAMBDA s : categorizer[s.sample_id] \in Acceptable /\ s.prompt = p)
UnacceptableAt(p) ==
    SelectSeq(samples, LAMBDA s : categorizer[s.sample_id] \in Unacceptable /\ s.prompt = p)
AcceptableIds == {i \in 1..Len(samples) : categorizer[i] \in Acceptable}
UnacceptableIds == {i \in 1..Len(samples) : categorizer[i] \in Unacceptable}

\* C1: in same-prompt mode the triples of each prompt p are, in output order,
\* the pairs (c, u), c over the acceptable samples with prompt p in input order
\* and, for each c, u over the unacceptable samples with prompt p in input
\* order: a * b triples per prompt, none for a prompt missing on a side, and
\* the empty list when one side is empty.
C1_SamePromptCrossProduct ==
    SameMode =>
        /\ \A k \in 1..Len(triples) : triples[k].prompt \in Prompts
        /\ \A p \in Prompts :
            LET A == AcceptableAt(p)
                U == UnacceptableAt(p)
                T == SelectSeq(triples, LAMBDA t : t.prompt = p)
            IN /\ Len(T) = Len(A) * Len(U)
               /\ \A k \in 1..Len(T) :
                    LET c == A[((k - 1) \div Len(U)) + 1]
                        u == U[((k - 1) % Len(U)) + 1]
                    IN /\ T[k].metadata.chosen_sample_id = c.sample_id
                       /\ T[k].metadata.rejected_sample_id = u.sample_id
                       /\ T[k].chosen = format_response(c, include_reasoning)
                       /\ T[k].rejected = format_response(u, include_reasoning)
        /\ (AcceptableIds = {} \/ UnacceptableIds = {}) => triples = <<>>

\* a 2 x 2 group: two acceptable and two unacceptable samples share a prompt
C1_Witness ==
    /\ SameMode
    /\ Len(triples) = 4
    /\ \E p \in Prompts : Len(AcceptableAt(p)) = 2 /\ Len(UnacceptableAt(p)) = 2

\* a prompt present on one side only yields nothing
C1_WitnessNoMatch ==
    /\ SameMode
    /\ triples = <<>>
    /\ AcceptableIds # {} /\ UnacceptableIds # {}

\* C2: in same-prompt mode the samples a triple's chosen and rejected texts were
\* rendered from both have the triple's prompt.
C2_SamePromptInvariant ==
    SameMode =>
        \A k \in 1..Len(triples) :
            LET t == triples[k]
                c == SampleOf(t.metadata.chosen_sample_id)
                u == SampleOf(t.metadata.rejected_sample_id)
            IN /\ t.chosen = format_response(c, include_reasoning)
               /\ t.rejected = format_response(u, include_reasoning)
               /\ c.prompt = t.prompt
               /\ u.prompt = t.prompt

\* triples were produced although an acceptable and an unacceptable sample
\* with different prompts exist
C2_Witness ==
    /\ SameMode
    /\ triples # <<>>
    /\ \E i \in AcceptableIds, j \in UnacceptableIds : samples[i].prompt # samples[j].prompt

\* C3: in both modes chosen is format_response of a TP/TN sample, rejected is
\* format_response of a FP/FN sample, the metadata carries the two tags, and
\* no sample is used on both sides.
C3_ChosenAcceptableRejectedUnacceptable ==
    GenDone =>
        /\ \A k \in 1..Len(triples) :
            LET t == triples[k]
            IN \E i \in AcceptableIds, j \in UnacceptableIds :
                /\ t.metadata.chosen_sample_id = i
                /\ t.metadata.rejected_sample_id = j
                /\ t.chosen = format_response(samples[i], include_reasoning)
                /\ t.rejected = format_response(samples[j], include_reasoning)
                /\ t.metadata.chosen_category = categorizer[i]
                /\ t.metadata.rejected_category = categorizer[j]
        /\ {triples[k].metadata.chosen_sample_id : k \in 1..Len(triples)}
            \cap {triples[k].metadata.rejected_sample_id : k \in 1..Len(triples)} = {}

\* all four tags occur in the metadata of one result, with reasoning rendered
C3_Witness ==
    /\ GenDone
    /\ include_reasoning
    /\ {triples[k].metadata.chosen_category : k \in 1..Len(triples)} = Acceptable
    /\ {triples[k].metadata.rejected_category : k \in 1..Len(triples)} = Unacceptable

\* C4: in cross mode the two partitions split the input, and the result holds
\* one triple per (acceptable, unacceptable) pair, whatever the prompts, with
\* the acceptable member's prompt.
C4_CrossModeProduct ==
    CrossMode =>
        LET correct == correct_samples(samples)
            incorrect == incorrect_samples(samples)
        IN /\ Len(correct) + Len(incorrect) = Len(samples)
           /\ \A i \in 1..Len(samples) :
                /\ (\E k \in 1..Len(correct) : correct[k] = samples[i])
                    # (\E k \in 1..Len(incorrect) : incorrect[k] = samples[i])
                /\ (\E k \in 1..Len(correct) : correct[k] = samples[i])
                    <=> i \in AcceptableIds
           /\ Len(triples) = Len(correct) * Len(incorrect)
           /\ \A i \in AcceptableIds, j \in UnacceptableIds :
                Cardinality({k \in 1..Len(triples) :
                    /\ triples[k].metadata.chosen_sample_id = i
                    /\ triples[k].metadata.rejected_sample_id = j
                    /\ triples[k].prompt = samples[i].prompt}) = 1

\* a 2 x 2 cross product over differing prompts
C4_Witness ==
    /\ CrossMode
    /\ Len(triples) = 4
    /\ \E k \in 1..Len(triples) :
        SampleOf(triples[k].metadata.chosen_sample_id).prompt
            # SampleOf(triples[k].metadata.rejected_sample_id).prompt

MetadataKeys ==
    {"chosen_sample_id", "rejected_sample_id", "chosen_category", "rejected_category",
     "evaluator_model", "chosen_generator", "rejected_generator", "dataset", "experiment"}

\* C5: every triple's metadata holds the nine provenance keys; prompt_mismatch
\* is present exactly in cross mode and is true exactly when the chosen and
\* the rejected sample's prompts differ.
C5_MetadataKeys ==
    GenDone =>
        \A k \in 1..Len(triples) :
            LET m == triples[k].metadata
            IN /\ MetadataKeys \subseteq DOMAIN m
               /\ ("prompt_mismatch" \in DOMAIN m) <=> ~require_same_prompt
               /\ ~require_same_prompt =>
                    (m.prompt_mismatch <=>
                        SampleOf(m.chosen_sample_id).prompt # SampleOf(m.rejected_sample_id).prompt)

\* a cross-mode result with a mismatching and a matching pair
C5_Witness ==
    /\ CrossMode
    /\ \E k \in 1..Len(triples) : triples[k].metadata.prompt_mismatch
    /\ \E k \in 1..Len(triples) : ~triples[k].metadata.prompt_mismatch

-----------------------------------------------------------------------------
(* Properties of format_response *)

\* C10: format_response returns reasoning, a blank line, "Answer: " and the
\* answer when include_reasoning is true and the reasoning is non-empty, the
\* answer verbatim otherwise; two samples that agree on reasoning and answer
\* format alike.
C10_FormatResponse ==
    /\ fmt_pc \in {"first", "done"} =>
        /\ (fmt_flag /\ fmt_a.reasoning # "") =>
            /\ fmt_out_a = fmt_a.reasoning \o "\n\nAnswer: " \o fmt_a.answer
            /\ Len(fmt_out_a) = Len(fmt_a.reasoning) + 10 + Len(fmt_a.answer)
        /\ (~fmt_flag \/ fmt_a.reasoning = "") => fmt_out_a = fmt_a.answer
        /\ (fmt_a.reasoning = "" /\ fmt_a.answer = "42") => fmt_out_a = "42"
        /\ (fmt_flag /\ fmt_a.reasoning = "R" /\ fmt_a.answer = "42") =>
            fmt_out_a = "R\n\nAnswer: 42"
    /\ (fmt_pc = "done" /\ fmt_a.reasoning = fmt_b.reasoning /\ fmt_a.answer = fmt_b.answer) =>
        fmt_out_a = fmt_out_b

\* reasoning requested but empty, for two samples that differ elsewhere
C10_Witness ==
    /\ fmt_pc = "done"
    /\ fmt_flag
    /\ fmt_a.reasoning = "" /\ fmt_b.reasoning = ""
    /\ fmt_a.answer = "42" /\ fmt_b.answer = "42"
    /\ fmt_a.prompt # fmt_b.prompt /\ fmt_a.sample_id # fmt_b.sample_id
    /\ fmt_out_a = "42"

-----------------------------------------------------------------------------
(* Properties of split_triples *)

SameCall(a, b) ==
    /\ a.input = b.input
    /\ a.train_ratio = b.train_ratio
    /\ a.seed = b.seed

\* C6: two calls in sequence with the same input, the same train_ratio and
\* the same seed return the same train and validation sequences, whatever
\* calls of split_triples or uses of the generator happened in between.
C6_SplitDeterministic ==
    (sp_ref # None /\ sp_last # None) =>
        LET a == sp_ref[1]
            b == sp_last[1]
        IN (SameCall(a, b) /\ b.seed # None) => (b.train = a.train /\ b.val = a.val)

\* the same seeded call of a three-element list repeated after other calls,
\* with a result that is not the input order
C6_Witness ==
    /\ sp_ref # None /\ sp_last # None
    /\ SameCall(sp_ref[1], sp_last[1])
    /\ sp_last[1].seed = Some(42)
    /\ Len(sp_last[1].input) = 3
    /\ sp_other
    /\ sp_last[1].train \o sp_last[1].val # sp_last[1].input

\* floor(n * x) for the exact product of an int n >= 0 and a double x >= 0
ExactFloor(n, x) ==
    IntOfDouble([limbs |-> StripHigh(LimbsMulAdd(n, SigLimbs(x.sig), 0)), scale |-> 52 - x.exp])

\* the edge cases and the sum of the size law
SizeLawEdges(call) ==
    /\ Len(call.train) + Len(call.val) = Len(call.input)
    /\ call.train_ratio = Double_0_0 => call.train = <<>>
    /\ call.train_ratio = Double_1_0 => call.val = <<>>
    /\ call.input = <<>> => (call.train = <<>> /\ call.val = <<>>)

SplitAlone(t) ==
    LET a == th_args[t]
        r == split_triples(a.input, a.train_ratio, a.val_ratio, a.seed, rng0)
    IN [train |-> r.train, val |-> r.val]

\* C8: concurrent calls with distinct seeds do not interfere: each call
\* returns the split it returns when run alone with its seed, and the calls
\* leave the process-wide generator as it was.
C8_NoInterference ==
    /\ \A t \in Threads : th_pc[t] = "done" => th_out[t] = Some(SplitAlone(t))
    /\ (\A t \in Threads : th_pc[t] = "done") => rng = rng0

-----------------------------------------------------------------------------
(* Properties of save_triples_jsonl *)

\* json.loads, the decoder the lines are read back with
ParseFail == [ok |-> FALSE, val |-> JNull, next |-> 0]
Parsed(value, next) == [ok |-> TRUE, val |-> value, next |-> next]

RECURSIVE skip_ws(_, _)
skip_ws(s, i) == IF i <= Len(s) /\ s[i] \in {" ", Newline} THEN skip_ws(s, i + 1) ELSE i

Starts(s, i, word) ==
    /\ i + Len(word) - 1 <= Len(s)
    /\ SubSeq(s, i, i + Len(word) - 1) = word

RECURSIVE parse_string_body(_, _, _)
\* the characters of a string literal from position i to its closing quote
parse_string_body(s, i, acc) ==
    IF i > Len(s) THEN ParseFail
    ELSE IF s[i] = Quote THEN Parsed(JStr(acc), i + 1)
    ELSE IF s[i] = Newline THEN ParseFail
    ELSE IF s[i] # Backslash THEN parse_string_body(s, i + 1, Append(acc, s[i]))
    ELSE IF i + 1 > Len(s) THEN ParseFail
    ELSE IF s[i + 1] = Quote THEN parse_string_body(s, i + 2, Append(acc, Quote))
    ELSE IF s[i + 1] = Backslash THEN parse_string_body(s, i + 2, Append(acc, Backslash))
    ELSE IF s[i + 1] = "n" THEN parse_string_body(s, i + 2, Append(acc, Newline))
    ELSE IF Starts(s, i + 1, <<"u", "0", "0", "e", "9">>)
        THEN parse_string_body(s, i + 6, Append(acc, NonAscii))
    ELSE ParseFail

parse_string(s, i) ==
    IF i <= Len(s) /\ s[i] = Quote THEN parse_string_body(s, i + 1, <<>>) ELSE ParseFail

DigitValue(c) == CHOOSE d \in 0..9 : DigitChars[d + 1] = c
IsDigit(c) == \E d \in 0..9 : DigitChars[d + 1] = c

RECURSIVE parse_digits(_, _, _)
parse_digits(s, i, acc) ==
    IF i <= Len(s) /\ IsDigit(s[i]) THEN parse_digits(s, i + 1, 10 * acc + DigitValue(s[i]))
    ELSE Parsed(JInt(acc), i)

parse_int(s, i) ==
    IF i <= Len(s) /\ s[i] = "-"
    THEN IF i + 1 <= Len(s) /\ IsDigit(s[i + 1])
         THEN LET r == parse_digits(s, i + 1, 0) IN Parsed(JInt(-r.val.v), r.next)
         ELSE ParseFail
    ELSE IF i <= Len(s) /\ IsDigit(s[i]) THEN parse_digits(s, i, 0)
    ELSE ParseFail

\* d[key] = value on an insertion-ordered dict
dict_set(pairs, key, value) ==
    IF \E k \in 1..Len(pairs) : pairs[k][1] = key
    THEN [k \in 1..Len(pairs) |-> IF pairs[k][1] = key THEN <<key, value>> ELSE pairs[k]]
    ELSE Append(pairs, <<key, value>>)

RECURSIVE parse_value(_, _)
RECURSIVE parse_members(_, _, _)

\* the members of an object from position i (a key) to the closing brace
parse_members(s, i, acc) ==
    LET key == parse_string(s, i)
        colon == skip_ws(s, key.next)
    IN IF ~key.ok \/ colon > Len(s) \/ s[colon] # ":" THEN ParseFail
       ELSE LET value == parse_value(s, skip_ws(s, colon + 1))
                sep == skip_ws(s, value.next)
                pairs == dict_set(acc, key.val.v, value.val)
            IN IF ~value.ok \/ sep > Len(s) THEN ParseFail
               ELSE IF s[sep] = "}" THEN Parsed(JObj(pairs), sep + 1)
               ELSE IF s[sep] = "," THEN parse_members(s, skip_ws(s, sep + 1), pairs)
               ELSE ParseFail

parse_value(s, i) ==
    IF i > Len(s) THEN ParseFail
    ELSE IF s[i] = Quote THEN parse_string(s, i)
    ELSE IF s[i] = "{"
        THEN LET j == skip_ws(s, i + 1)
             IN IF j <= Len(s) /\ s[j] = "}" THEN Parsed(JObj(<<>>), j + 1)
                ELSE parse_members(s, j, <<>>)
    ELSE IF Starts(s, i, <<"t", "r", "u", "e">>) THEN Parsed(JBool(TRUE), i + 4)
    ELSE IF Starts(s, i, <<"f", "a", "l", "s", "e">>) THEN Parsed(JBool(FALSE), i + 5)
    ELSE IF Starts(s, i, <<"n", "u", "l", "l">>) THEN Parsed(JNull, i + 4)
    ELSE parse_int(s, i)

\* json.loads(text): one value, with nothing but white space around it
json_loads(s) ==
    LET r == parse_value(s, skip_ws(s, 1))
    IN IF r.ok /\ skip_ws(s, r.next) > Len(s) THEN r ELSE ParseFail

\* the lines a text file yields when iterated, without their line ends:
\* each ends at a line break, the last one possibly at the end of the text
split_lines(s) ==
    LET ends == {i \in 1..Len(s) : s[i] = Newline}
                    \cup (IF s # <<>> /\ s[Len(s)] # Newline THEN {Len(s) + 1} ELSE {})
        kth(k) == CHOOSE e \in ends : Cardinality({x \in ends : x < e}) = k - 1
    IN [k \in 1..Cardinality(ends) |->
            SubSeq(s, (IF k = 1 THEN 1 ELSE kth(k - 1) + 1), kth(k) - 1)]

\* the value of key in a decoded object, or a failed parse when absent
Field(obj, key) ==
    IF obj.t = "obj" /\ \E k \in 1..Len(obj.v) : obj.v[k][1] = key
    THEN Parsed(obj.v[CHOOSE k \in 1..Len(obj.v) : obj.v[k][1] = key][2], 0)
    ELSE ParseFail

\* two mappings with the same keys and the same value under each key
SameMapping(a, b) ==
    /\ {a[k][1] : k \in 1..Len(a)} = {b[k][1] : k \in 1..Len(b)}
    /\ \A i \in 1..Len(a), j \in 1..Len(b) : a[i][1] = b[j][1] => a[i][2] = b[j][2]

\* C9: after save_triples_jsonl the destination holds one line per triple,
\* whatever it held before, and the i-th line decodes to a record with the
\* prompt, chosen, rejected and metadata of the i-th triple.
C9_SaveRoundTrip ==
    sv_pc = "done" =>
        LET lines == split_lines(file)
        IN /\ Len(lines) = Len(sv_triples)
           /\ \A i \in 1..Len(sv_triples) :
                LET r == json_loads(lines[i])
                    t == sv_triples[i]
                IN /\ r.ok
                   /\ Field(r.val, KeyPrompt) = Parsed(JStr(t.prompt), 0)
                   /\ Field(r.val, KeyChosen) = Parsed(JStr(t.chosen), 0)
                   /\ Field(r.val, KeyRejected) = Parsed(JStr(t.rejected), 0)
                   /\ Field(r.val, KeyMetadata).ok
                   /\ Field(r.val, KeyMetadata).val.t = "obj"
                   /\ SameMapping(Field(r.val, KeyMetadata).val.v, t.metadata)

\* two triples with line breaks in their texts written over three old lines
C9_Witness ==
    /\ sv_pc = "done"
    /\ Len(sv_triples) = 2
    /\ \A i \in 1..2 : \E k \in 1..Len(sv_triples[i].prompt) : sv_triples[i].prompt[k] = Newline
    /\ sv_triples[1].metadata # <<>>
    /\ Len(split_lines(file)) = 2
    /\ \E c \in PriorContents : c # <<>> /\ Len(c) < Len(file)

-----------------------------------------------------------------------------
(* Properties of split_triples on its list objects *)

\* how many positions of x hold v
Count(x, v) == Cardinality({i \in 1..Len(x) : x[i] = v})

IndexPermutations(n) == {f \in [1..n -> 1..n] : \A i, j \in 1..n : f[i] = f[j] => i = j}

\* C11: the caller's list is the same at every step of the call, and at the
\* return the training sequence followed by the validation sequence is the
\* input rearranged: every position of the input goes to exactly one position
\* of exactly one output, so every triple occurs as often as in the input.
C11_SplitPermutationFrame ==
    pm_pc # "off" =>
        /\ pm_heap[pm_args[1].triples] = pm_args[1].input
        /\ pm_pc = "done" =>
            LET input == pm_args[1].input
                all == pm_out[1].train \o pm_out[1].val
            IN /\ Len(all) = Len(input)
               /\ \A v \in PermTriples : Count(all, v) = Count(input, v)
               /\ \A i \in 1..Len(all) : all[i] \in PermTriples
               /\ \E f \in IndexPermutations(Len(input)) :
                    \A i \in 1..Len(input) : all[i] = input[f[i]]

\* a returned split of a list with a repeated triple, in another order than
\* the input, both outputs non-empty
C11_Witness ==
    /\ pm_pc = "done"
    /\ Len(pm_args[1].input) >= 3
    /\ \E i, j \in 1..Len(pm_args[1].input) : i # j /\ pm_args[1].input[i] = pm_args[1].input[j]
    /\ pm_out[1].train \o pm_out[1].val # pm_args[1].input
    /\ pm_out[1].train # <<>>
    /\ pm_out[1].val # <<>>

-----------------------------------------------------------------------------
(* Properties of save_triples_jsonl when encoding or writing fails *)

\* the intended output for the first n triples
RecordLines(n) == Flatten([i \in 1..n |-> record_line(sv_triples[i])])

IsPrefix(x, y) == Len(x) <= Len(y) /\ x = SubSeq(y, 1, Len(x))

SaveFailed == sv_pc = "failed"

\* the error goes to the caller, the file is closed, the count is not
\* printed and the loop stopped at the triple that failed
FailurePropagates ==
    /\ sv_err # None
    /\ ~sv_open
    /\ ~sv_reported
    /\ sv_k < Len(sv_triples)

\* C12 as stated: when the k-th triple fails, the destination holds exactly
\* the records of the first k-1 triples.
C12_FailureLeavesRecords ==
    SaveFailed => (FailurePropagates /\ file = RecordLines(sv_k))

\* C12: when the k-th triple fails the error goes to the caller, the file is
\* closed and the count is not printed; after an encoding failure the
\* destination holds exactly the records of the first k-1 triples, and after
\* a write failure it holds a leading part of the text of the first k
\* records, which may end inside a record.
C12_FailureLeavesPrefix ==
    SaveFailed =>
        /\ FailurePropagates
        /\ sv_err = Some("TypeError") => file = RecordLines(sv_k)
        /\ sv_err = Some("OSError") => IsPrefix(file, RecordLines(sv_k + 1))

\* the write of the second triple failed and the file ends inside the first
\* record
C12_Witness ==
    /\ SaveFailed
    /\ sv_err = Some("OSError")
    /\ sv_k = 1
    /\ file # <<>>
    /\ Len(file) < Len(RecordLines(1))

\* the encoding of the third triple failed after two records were written
C12_WitnessEncoding ==
    /\ SaveFailed
    /\ sv_err = Some("TypeError")
    /\ sv_k = 2
    /\ file = RecordLines(2)

====
